---- MODULE Spec2Model ----
(***************************************************************************)
(* Model of src/main.py: the three FastAPI handlers image_color_correction,*)
(* banana_extraction and combined_processing.  Each handler is modelled    *)
(* twice: as a one-shot operator (the handler run alone, start to end) and *)
(* as a sequence of steps of a request (one step per statement group of    *)
(* the try body, one for the except clauses), so that several requests can *)
(* be interleaved.                                                         *)
(*                                                                         *)
(* The calls into Pillow and Starlette are modelled by their behaviour:    *)
(*   Image.open   is lazy: it identifies the file and reads the header     *)
(*                (size, mode); pixel data is read by load(), which filter *)
(*                and crop call first.                                     *)
(*   Image.filter with a Color3DLUT needs an image of at least 3 bands.    *)
(*   Image.save   cannot encode an image without pixels.                   *)
(*   Response     encodes every header value as latin-1.                   *)
(***************************************************************************)
EXTENDS Integers, Sequences, FiniteSets, TLC

(***************************** bounds **************************************)
MaxDim == 4
MaxK == 3
NumReqs == 2
ConcDim == 2

(***************************** constants of the code ***********************)
\* delta_e_orig = 9.2 and delta_e_corrected = 5.3, in tenths
delta_e_orig == 92
\* mutant: the corrected error exceeds the original one
delta_e_corrected_high == delta_e_orig + 6
delta_e_corrected == 53
color_correction_version == "0.0.1"
banana_extraction_version == "0.0.1"

Ops == {"color_correction", "banana_extraction", "combined_processing"}
Reqs == 1..NumReqs

Min(a, b) == IF a < b THEN a ELSE b

(***************************** uploads *************************************)
Dims == 1..MaxDim
Modes == {"RGB", "L"}
Patterns == {"white", "gray", "ramp"}

\* the colour of the scene at column x, row y
PatternPixel(p, x, y) ==
    CASE p = "white" -> <<255, 255, 255>>
      [] p = "gray"  -> <<128, 128, 128>>
      [] p = "ramp"  -> <<(40 + 60 * x) % 256, (200 + 70 * y) % 256, 250 - x - y>>

\* an "L" image has one band, an "RGB" image three
ModePixel(m, c) == IF m = "L" THEN <<c[1]>> ELSE c

\* pixel data of a file, row-major
PatternData(p, m, w, h) ==
    [i \in 1..(w * h) |-> ModePixel(m, PatternPixel(p, (i - 1) % w, (i - 1) \div w))]

\* exception texts that have a character outside latin-1
WideTexts == {"Token too long in file header: <U+65E5><U+672C><U+8A9E>ab"}
AsciiHeaderText == "Reached EOF while reading header"

\* a readable image file: w x h pixels, showing a colour chart or not, and K
\* instances of the target object
ImageUploadsOf(D) ==
    {[kind |-> "image", w |-> w, h |-> h, mode |-> m,
      data |-> PatternData(p, m, w, h), chart |-> c, K |-> k, text |-> ""] :
        w \in D, h \in D, m \in Modes, p \in Patterns, c \in BOOLEAN, k \in 0..MaxK}

\* files that cannot be decoded: no known format; a header no plugin can
\* parse (the plugin's error text quotes the header); a good header with the
\* pixel data cut off
BrokenUploads ==
    {[kind |-> "unidentified", w |-> 0, h |-> 0, mode |-> "RGB",
      data |-> <<>>, chart |-> FALSE, K |-> 0, text |-> ""]}
    \cup {[kind |-> "badheader", w |-> 0, h |-> 0, mode |-> "RGB",
           data |-> <<>>, chart |-> FALSE, K |-> 0, text |-> t] :
              t \in WideTexts \cup {AsciiHeaderText}}
    \cup {[kind |-> "truncated", w |-> d, h |-> d, mode |-> "RGB",
           data |-> <<>>, chart |-> FALSE, K |-> 0, text |-> ""] : d \in {MaxDim}}

Uploads == ImageUploadsOf(Dims) \cup BrokenUploads

ConcUploads ==
    {u \in ImageUploadsOf({ConcDim}) : u.chart /\ u.K = 2 /\ u.data = PatternData("ramp", u.mode, u.w, u.h)}
    \cup BrokenUploads

Decodable(u) == u.kind = "image"

(***************************** results of a call ***************************)
Ok(v) == [ok |-> TRUE, val |-> v]
Raise(t, s) == [ok |-> FALSE, exc |-> [type |-> t, text |-> s]]
NoExc == [type |-> "none", text |-> ""]

(***************************** Pillow **************************************)
\* Image.open(img.file): identifies the file and reads its header
ImageOpen(u) ==
    CASE u.kind = "unidentified" -> Raise("UnidentifiedImageError", "cannot identify image file")
      [] u.kind = "badheader"    -> Raise("ValueError", u.text)
      [] OTHER -> Ok([w |-> u.w, h |-> u.h, mode |-> u.mode, data |-> u.data,
                      truncated |-> (u.kind = "truncated")])

Coords(w, h) == (0..(w - 1)) \X (0..(h - 1))

\* Image.load(): decodes the pixel data into a raster addressed by <<x, y>>
ImageLoad(im) ==
    IF im.truncated
    THEN Raise("OSError", "image file is truncated (0 bytes not processed)")
    ELSE Ok([c \in Coords(im.w, im.h) |-> im.data[c[2] * im.w + c[1] + 1]])

\* one channel scaled by n/10, rounded, clamped to 8 bits
Scale(v, n) == Min(255, (v * n + 5) \div 10)

\* lambda r, g, b: (0.7 * r, 0.7 * g, 1.2 * b)
color_filter(c) == <<Scale(c[1], 7), Scale(c[2], 7), Scale(c[3], 12)>>

\* a raster stored back as the image object's data
Raster(w, h, mode, px) ==
    [w |-> w, h |-> h, mode |-> mode, truncated |-> FALSE,
     data |-> [i \in 1..(w * h) |-> px[<<(i - 1) % w, (i - 1) \div w>>]]]

\* img_orig.filter(color_filter)
ImageFilterApply(im) ==
    LET l == ImageLoad(im) IN
    IF ~l.ok THEN l
    ELSE IF im.mode # "RGB" THEN Raise("ValueError", "image has wrong mode")
    ELSE Ok(Raster(im.w, im.h, im.mode, [c \in Coords(im.w, im.h) |-> color_filter(l.val[c])]))

\* x * 0.25 and x * 0.75 (both factors are exact binary fractions, so the
\* product is exact), in hundredths
Mul025(x) == x * 25
Mul075(x) == x * 75

\* mutant: round(f) in place of int(f)
IntOfRound(f) == (f + 50) \div 100

\* int(f) of a float f given in hundredths: truncation towards zero
IntOf(f) == IF f >= 0 THEN f \div 100 ELSE -((-f) \div 100)

\* area = (left, top, right, bottom)
CropArea(w, h) ==
    <<IntOf(Mul025(w)), IntOf(Mul025(h)), IntOf(Mul075(w)), IntOf(Mul075(h))>>

\* img_orig.crop(area)
ImageCrop(im, area) ==
    LET l == ImageLoad(im)
        cw == area[3] - area[1]
        ch == area[4] - area[2]
    IN  IF area[3] < area[1] THEN Raise("ValueError", "Coordinate 'right' is less than 'left'")
        ELSE IF area[4] < area[2] THEN Raise("ValueError", "Coordinate 'lower' is less than 'upper'")
        ELSE IF ~l.ok THEN l
        ELSE Ok(Raster(cw, ch, im.mode,
                       [c \in Coords(cw, ch) |-> l.val[<<c[1] + area[1], c[2] + area[2]>>]]))

EmptyBody == [format |-> "none"]

\* img_orig.save(img_processed, "PNG"); img_processed.getvalue()
ImageSave(im) ==
    LET l == ImageLoad(im) IN
    IF ~l.ok THEN l
    ELSE IF im.w = 0 \/ im.h = 0 THEN Raise("SystemError", "tile cannot extend outside image")
    ELSE Ok([format |-> "PNG", w |-> im.w, h |-> im.h, mode |-> im.mode, data |-> im.data])

(***************************** Starlette ***********************************)
Latin1(s) == s \notin WideTexts

\* Response(content = ..., headers = ..., media_type = ...)
NewResponse(content, headers, media_type) ==
    IF \E k \in DOMAIN headers : ~Latin1(headers[k])
    THEN Raise("UnicodeEncodeError", "'latin-1' codec can't encode characters")
    ELSE Ok([content |-> content, headers |-> headers, media_type |-> media_type])

(***************************** f-strings ***********************************)
\* f"{x}" of a float x with one decimal, x given in tenths
FormatFloat(t) == ToString(t \div 10) \o "." \o ToString(t % 10)

(***************************** response headers ****************************)
\* message of image_color_correction
cc_message ==
    [delta_e_orig |-> FormatFloat(delta_e_orig),
     delta_e_corrected |-> FormatFloat(delta_e_corrected),
     color_correction_version |-> color_correction_version]

\* message of banana_extraction
be_message ==
    [number_of_bananas |-> "2",
     banana_extraction_version |-> banana_extraction_version]

\* mutant: the combined message without the object count
cp_message_nocount ==
    [delta_e_orig |-> FormatFloat(delta_e_orig),
     delta_e_corrected |-> FormatFloat(delta_e_corrected),
     color_correction_version |-> color_correction_version,
     banana_extraction_version |-> banana_extraction_version]

\* message of combined_processing
cp_message ==
    [delta_e_orig |-> FormatFloat(delta_e_orig),
     delta_e_corrected |-> FormatFloat(delta_e_corrected),
     color_correction_version |-> color_correction_version,
     number_of_bananas |-> "2",
     banana_extraction_version |-> banana_extraction_version]

(***************************** except clauses ******************************)
\* the message built by the first except clause of the handler that matches e
cc_except(e) ==
    CASE e.type = "UnidentifiedImageError"    -> [error |-> "Not valid image file"]
      [] e.type = "ColorCheckerNotFoundError" -> [error |-> "No ColorChecker found"]
      [] OTHER                                -> [error |-> e.text]

be_except(e) ==
    CASE e.type = "UnidentifiedImageError"    -> [error |-> "Not valid image file"]
      [] e.type = "BananaObjectNotFoundError" -> [error |-> "No banana found"]
      [] OTHER                                -> [error |-> e.text]

cp_except(e) ==
    CASE e.type = "UnidentifiedImageError"    -> [error |-> "Not valid image file"]
      [] e.type = "ColorCheckerNotFoundError" -> [error |-> "No ColorChecker found"]
      [] e.type = "BananaObjectNotFoundError" -> [error |-> "No banana found"]
      [] OTHER                                -> [error |-> e.text]

ExceptMessage(o, e) ==
    CASE o = "color_correction"    -> cc_except(e)
      [] o = "banana_extraction"   -> be_except(e)
      [] o = "combined_processing" -> cp_except(e)

\* what the caller of a handler gets: the Response it returned, or the
\* exception that left it
Returned(resp) == [status |-> "returned", content |-> resp.content,
                   headers |-> resp.headers, media_type |-> resp.media_type]
Raised(e) == [status |-> "raised", content |-> EmptyBody,
              headers |-> [exception |-> e.type], media_type |-> "none"]
Pending == [status |-> "pending", content |-> EmptyBody,
            headers |-> [pending |-> ""], media_type |-> "none"]

\* return Response(headers = message) in an except clause: nothing encloses it
ExceptReturn(o, e) ==
    LET resp == NewResponse(EmptyBody, ExceptMessage(o, e), "none") IN
    IF resp.ok THEN Returned(resp.val) ELSE Raised(resp.exc)

(***************************** the handlers, run alone *********************)
image_color_correction(u) ==
    LET o == ImageOpen(u) IN
    IF ~o.ok THEN ExceptReturn("color_correction", o.exc) ELSE
    LET f == ImageFilterApply(o.val) IN
    IF ~f.ok THEN ExceptReturn("color_correction", f.exc) ELSE
    LET s == ImageSave(f.val) IN
    IF ~s.ok THEN ExceptReturn("color_correction", s.exc) ELSE
    LET resp == NewResponse(s.val, cc_message, "image/png") IN
    IF ~resp.ok THEN ExceptReturn("color_correction", resp.exc) ELSE Returned(resp.val)

banana_extraction(u) ==
    LET o == ImageOpen(u) IN
    IF ~o.ok THEN ExceptReturn("banana_extraction", o.exc) ELSE
    LET c == ImageCrop(o.val, CropArea(o.val.w, o.val.h)) IN
    IF ~c.ok THEN ExceptReturn("banana_extraction", c.exc) ELSE
    LET s == ImageSave(c.val) IN
    IF ~s.ok THEN ExceptReturn("banana_extraction", s.exc) ELSE
    LET resp == NewResponse(s.val, be_message, "image/png") IN
    IF ~resp.ok THEN ExceptReturn("banana_extraction", resp.exc) ELSE Returned(resp.val)

combined_processing(u) ==
    LET o == ImageOpen(u) IN
    IF ~o.ok THEN ExceptReturn("combined_processing", o.exc) ELSE
    LET f == ImageFilterApply(o.val) IN
    IF ~f.ok THEN ExceptReturn("combined_processing", f.exc) ELSE
    LET c == ImageCrop(f.val, CropArea(f.val.w, f.val.h)) IN
    IF ~c.ok THEN ExceptReturn("combined_processing", c.exc) ELSE
    LET s == ImageSave(c.val) IN
    IF ~s.ok THEN ExceptReturn("combined_processing", s.exc) ELSE
    LET resp == NewResponse(s.val, cp_message, "image/png") IN
    IF ~resp.ok THEN ExceptReturn("combined_processing", resp.exc) ELSE Returned(resp.val)

Handle(o, u) ==
    CASE o = "color_correction"    -> image_color_correction(u)
      [] o = "banana_extraction"   -> banana_extraction(u)
      [] o = "combined_processing" -> combined_processing(u)

(***************************** requests in flight **************************)
\* per request: the position in its handler and the handler's locals
VARIABLES pc, op, upload, img_orig, img_processed, message, exc, response, ran

vars == <<pc, op, upload, img_orig, img_processed, message, exc, response, ran>>

NoUpload == [kind |-> "none", w |-> 0, h |-> 0, mode |-> "none",
             data |-> <<>>, chart |-> FALSE, K |-> 0, text |-> ""]
NoImage == [w |-> 0, h |-> 0, mode |-> "none", truncated |-> FALSE, data |-> <<>>]
NoMessage == [none |-> ""]

Init ==
    /\ pc = [r \in Reqs |-> "idle"]
    /\ op = [r \in Reqs |-> "none"]
    /\ upload = [r \in Reqs |-> NoUpload]
    /\ img_orig = [r \in Reqs |-> NoImage]
    /\ img_processed = [r \in Reqs |-> EmptyBody]
    /\ message = [r \in Reqs |-> NoMessage]
    /\ exc = [r \in Reqs |-> NoExc]
    /\ response = [r \in Reqs |-> Pending]
    /\ ran = [r \in Reqs |-> {}]

\* an exception raised inside the try body: control goes to the except clauses
Throw(r, e, stage) ==
    /\ exc' = [exc EXCEPT ![r] = e]
    /\ pc' = [pc EXCEPT ![r] = "except"]
    /\ ran' = [ran EXCEPT ![r] = @ \cup stage]

\* the framework calls the handler of route o with the upload u
Receive(r, o, u) ==
    /\ pc[r] = "idle"
    /\ op' = [op EXCEPT ![r] = o]
    /\ upload' = [upload EXCEPT ![r] = u]
    /\ pc' = [pc EXCEPT ![r] = "open"]
    /\ UNCHANGED <<img_orig, img_processed, message, exc, response, ran>>

\* img_orig = Image.open(img.file)
Open(r) ==
    /\ pc[r] = "open"
    /\ LET o == ImageOpen(upload[r]) IN
       IF o.ok
       THEN /\ img_orig' = [img_orig EXCEPT ![r] = o.val]
            /\ pc' = [pc EXCEPT ![r] = IF op[r] = "banana_extraction" THEN "crop" ELSE "filter"]
            /\ UNCHANGED <<exc, ran>>
       ELSE /\ Throw(r, o.exc, {})
            /\ UNCHANGED img_orig
    /\ UNCHANGED <<op, upload, img_processed, message, response>>

\* mutant: the combined handler goes from the filter straight to the save
FilterSkipCrop(r) ==
    /\ pc[r] = "filter"
    /\ LET f == ImageFilterApply(img_orig[r]) IN
       IF f.ok
       THEN /\ img_orig' = [img_orig EXCEPT ![r] = f.val]
            /\ pc' = [pc EXCEPT ![r] = "save"]
            /\ ran' = [ran EXCEPT ![r] = @ \cup {"filter"}]
            /\ UNCHANGED exc
       ELSE /\ Throw(r, f.exc, {"filter"})
            /\ UNCHANGED img_orig
    /\ UNCHANGED <<op, upload, img_processed, message, response>>

\* img_orig = img_orig.filter(color_filter)
Filter(r) ==
    /\ pc[r] = "filter"
    /\ LET f == ImageFilterApply(img_orig[r]) IN
       IF f.ok
       THEN /\ img_orig' = [img_orig EXCEPT ![r] = f.val]
            /\ pc' = [pc EXCEPT ![r] = IF op[r] = "color_correction" THEN "save" ELSE "crop"]
            /\ ran' = [ran EXCEPT ![r] = @ \cup {"filter"}]
            /\ UNCHANGED exc
       ELSE /\ Throw(r, f.exc, {"filter"})
            /\ UNCHANGED img_orig
    /\ UNCHANGED <<op, upload, img_processed, message, response>>

\* width, height = img_orig.size; ...; img_orig = img_orig.crop(area)
Crop(r) ==
    /\ pc[r] = "crop"
    /\ LET c == ImageCrop(img_orig[r], CropArea(img_orig[r].w, img_orig[r].h)) IN
       IF c.ok
       THEN /\ img_orig' = [img_orig EXCEPT ![r] = c.val]
            /\ pc' = [pc EXCEPT ![r] = "save"]
            /\ ran' = [ran EXCEPT ![r] = @ \cup {"crop"}]
            /\ UNCHANGED exc
       ELSE /\ Throw(r, c.exc, {"crop"})
            /\ UNCHANGED img_orig
    /\ UNCHANGED <<op, upload, img_processed, message, response>>

\* mutant: img_processed is one module-level buffer that every request writes
SaveShared(r) ==
    /\ pc[r] = "save"
    /\ LET s == ImageSave(img_orig[r]) IN
       IF s.ok
       THEN /\ img_processed' = [q \in Reqs |-> s.val]
            /\ pc' = [pc EXCEPT ![r] = "header"]
            /\ ran' = [ran EXCEPT ![r] = @ \cup {"save"}]
            /\ UNCHANGED exc
       ELSE /\ Throw(r, s.exc, {"save"})
            /\ UNCHANGED img_processed
    /\ UNCHANGED <<op, upload, img_orig, message, response>>

\* img_processed = BytesIO(); img_orig.save(img_processed, "PNG")
Save(r) ==
    /\ pc[r] = "save"
    /\ LET s == ImageSave(img_orig[r]) IN
       IF s.ok
       THEN /\ img_processed' = [img_processed EXCEPT ![r] = s.val]
            /\ pc' = [pc EXCEPT ![r] = "header"]
            /\ ran' = [ran EXCEPT ![r] = @ \cup {"save"}]
            /\ UNCHANGED exc
       ELSE /\ Throw(r, s.exc, {"save"})
            /\ UNCHANGED img_processed
    /\ UNCHANGED <<op, upload, img_orig, message, response>>

\* construct response header
Header(r) ==
    /\ pc[r] = "header"
    /\ message' = [message EXCEPT ![r] =
                      CASE op[r] = "color_correction"    -> cc_message
                        [] op[r] = "banana_extraction"   -> be_message
                        [] op[r] = "combined_processing" -> cp_message]
    /\ pc' = [pc EXCEPT ![r] = "return"]
    /\ ran' = [ran EXCEPT ![r] = @ \cup {"header"}]
    /\ UNCHANGED <<op, upload, img_orig, img_processed, exc, response>>

\* return Response(content = img_processed.getvalue(), headers = message, ...)
Return(r) ==
    /\ pc[r] = "return"
    /\ LET resp == NewResponse(img_processed[r], message[r], "image/png") IN
       IF resp.ok
       THEN /\ response' = [response EXCEPT ![r] = Returned(resp.val)]
            /\ pc' = [pc EXCEPT ![r] = "done"]
            /\ UNCHANGED <<exc, ran>>
       ELSE /\ Throw(r, resp.exc, {})
            /\ UNCHANGED response
    /\ UNCHANGED <<op, upload, img_orig, img_processed, message>>

\* the except clauses: message = {"error": ...}; return Response(headers = message)
Except(r) ==
    /\ pc[r] = "except"
    /\ message' = [message EXCEPT ![r] = ExceptMessage(op[r], exc[r])]
    /\ response' = [response EXCEPT ![r] = ExceptReturn(op[r], exc[r])]
    /\ pc' = [pc EXCEPT ![r] = "done"]
    /\ UNCHANGED <<op, upload, img_orig, img_processed, exc, ran>>

Step(r) ==
    \/ Open(r) \/ Filter(r) \/ Crop(r) \/ Save(r)
    \/ Header(r) \/ Return(r) \/ Except(r)

\* one request at a time
Next ==
    \/ \E o \in Ops, u \in Uploads : Receive(1, o, u)
    \/ Step(1)

Spec == Init /\ [][Next]_vars

\* several requests, their steps interleaved
NextConc ==
    \E r \in Reqs :
        \/ \E o \in Ops, u \in ConcUploads : Receive(r, o, u)
        \/ Step(r)

SpecConc == Init /\ [][NextConc]_vars

Done(r) == pc[r] = "done"

(***************************** shapes of an outcome ************************)
CCKeys == {"delta_e_orig", "delta_e_corrected", "color_correction_version"}
BEKeys == {"number_of_bananas", "banana_extraction_version"}
MetricKeys == CCKeys \cup BEKeys

OpKeys(o) ==
    CASE o = "color_correction"    -> CCKeys
      [] o = "banana_extraction"   -> BEKeys
      [] o = "combined_processing" -> CCKeys \cup BEKeys

IsSuccess(o, resp) ==
    /\ resp.status = "returned"
    /\ resp.content # EmptyBody
    /\ OpKeys(o) \subseteq DOMAIN resp.headers
    /\ "error" \notin DOMAIN resp.headers

IsFailure(resp) ==
    /\ resp.status = "returned"
    /\ "error" \in DOMAIN resp.headers
    /\ resp.content = EmptyBody
    /\ DOMAIN resp.headers \cap MetricKeys = {}

FailsWith(resp, text) == IsFailure(resp) /\ resp.headers["error"] = text

\* C1: every finished request has exactly one of the two shapes: a success
\* (image body, the operation's metadata keys, no error key) or a failure
\* (error key, no body, no metric key); a request in which a stage raised
\* returns no image.
C1_TwoShapes ==
    \A r \in Reqs : Done(r) =>
        /\ IsSuccess(op[r], response[r]) # IsFailure(response[r])
        /\ (exc[r] # NoExc => response[r].content = EmptyBody)

\* C2: color correction of a decodable image that shows no colour chart ends
\* in the ColorCheckerNotFound failure.
C2_NoChartFails ==
    \A r \in Reqs :
        (Done(r) /\ op[r] = "color_correction" /\ Decodable(upload[r]) /\ ~upload[r].chart)
            => FailsWith(response[r], "No ColorChecker found")

\* C3: a successful object extraction reports the number K of instances in
\* the image as a string, and an image with no instance ends in ObjectNotFound.
C3_CountsInstances ==
    \A r \in Reqs :
        (Done(r) /\ op[r] = "banana_extraction" /\ Decodable(upload[r])) =>
            /\ upload[r].K = 0 => FailsWith(response[r], "No banana found")
            /\ IsSuccess(op[r], response[r]) =>
                   response[r].headers["number_of_bananas"] = ToString(upload[r].K)

IsNatString(s) == \E n \in 0..MaxK : ToString(n) = s

\* C4: on success the metadata keys are exactly those of the operation (the
\* union of both sets for the combined operation), and number_of_bananas is
\* the string form of a non-negative integer.
C4_MetadataKeys ==
    \A r \in Reqs :
        (Done(r) /\ response[r].status = "returned" /\ "error" \notin DOMAIN response[r].headers) =>
            /\ DOMAIN response[r].headers = OpKeys(op[r])
            /\ "number_of_bananas" \in DOMAIN response[r].headers =>
                   IsNatString(response[r].headers["number_of_bananas"])

C4_Witness ==
    \E r \in Reqs : /\ Done(r) /\ op[r] = "combined_processing"
                    /\ IsSuccess(op[r], response[r])
                    /\ Cardinality(DOMAIN response[r].headers) = 5

\* C5: an upload that cannot be decoded ends in the invalid-image failure,
\* decided before the colour transform, the crop or the header construction
\* has run.
C5_InvalidImageFirst ==
    \A r \in Reqs :
        (Done(r) /\ upload[r].kind \in {"unidentified", "badheader", "truncated"}) =>
            /\ FailsWith(response[r], "Not valid image file")
            /\ ran[r] = {}

MaxTenths == 120

\* the float a header value denotes, in tenths; -1 when it is not numeric
ParseFloat(s) ==
    IF \E t \in 0..MaxTenths : FormatFloat(t) = s
    THEN CHOOSE t \in 0..MaxTenths : FormatFloat(t) = s
    ELSE -1

\* C6: in a successful color-correction or combined result both delta E
\* values are numeric and non-negative, and delta_e_corrected <= delta_e_orig.
C6_DeltaEOrdered ==
    \A r \in Reqs :
        (Done(r) /\ op[r] # "banana_extraction" /\ IsSuccess(op[r], response[r])) =>
            LET before == ParseFloat(response[r].headers["delta_e_orig"])
                after == ParseFloat(response[r].headers["delta_e_corrected"])
            IN  before >= 0 /\ after >= 0 /\ after <= before

C6_Witness ==
    \E r \in Reqs : /\ Done(r) /\ op[r] = "color_correction"
                    /\ IsSuccess(op[r], response[r])
                    /\ ParseFloat(response[r].headers["delta_e_corrected"]) = 53

\* C7: a finished handler has returned a response; no exception leaves it.
C7_NothingEscapes ==
    \A r \in Reqs : Done(r) => response[r].status = "returned"

\* C8: under any interleaving, the outcome of a finished request is the
\* outcome of its handler run alone on the same upload.
C8_Independent ==
    \A r \in Reqs : Done(r) => response[r] = Handle(op[r], upload[r])

C8_Witness ==
    \E r1, r2 \in Reqs :
        /\ r1 # r2 /\ Done(r1) /\ Done(r2)
        /\ op[r1] = "color_correction" /\ IsSuccess(op[r1], response[r1])
        /\ op[r2] = "combined_processing" /\ IsSuccess(op[r2], response[r2])
        /\ response[r1].content # response[r2].content

\* the PNG body of a response, uploaded again
AsUpload(body, u) ==
    [kind |-> "image", w |-> body.w, h |-> body.h, mode |-> body.mode,
     data |-> body.data, chart |-> u.chart, K |-> u.K, text |-> ""]

\* the two metadata maps merged
MergeHeaders(h1, h2) ==
    [k \in DOMAIN h1 \cup DOMAIN h2 |-> IF k \in DOMAIN h2 THEN h2[k] ELSE h1[k]]

\* color correction, then object extraction of its result
Chained(u) ==
    LET first == image_color_correction(u) IN
    IF ~IsSuccess("color_correction", first) THEN first ELSE
    LET second == banana_extraction(AsUpload(first.content, u)) IN
    IF ~IsSuccess("banana_extraction", second) THEN second
    ELSE [second EXCEPT !.headers = MergeHeaders(first.headers, second.headers)]

\* C9: the outcome of the combined operation on a decodable upload is that
\* of color correction followed by object extraction of its result, with the
\* two metadata maps merged.
C9_CombinedIsChain ==
    \A r \in Reqs :
        (Done(r) /\ op[r] = "combined_processing" /\ Decodable(upload[r]))
            => response[r] = Chained(upload[r])

C9_Witness ==
    \E r \in Reqs :
        /\ Done(r) /\ op[r] = "combined_processing" /\ Decodable(upload[r])
        /\ IsSuccess(op[r], response[r])
        /\ upload[r].w = 4 /\ response[r].content.w = 2
        /\ \E i \in DOMAIN response[r].content.data :
               response[r].content.data[i] \notin {upload[r].data[j] : j \in DOMAIN upload[r].data}

FloorDiv(a, b) == a \div b

\* C10: the crop rectangle of a w x h image is (floor(w/4), floor(h/4),
\* floor(3w/4), floor(3h/4)); it lies inside the image, and it has non-zero
\* area exactly when w >= 2 and h >= 2.  The cropped image has its size.
C10_CropRectangle ==
    \A r \in Reqs :
        /\ pc[r] = "crop" =>
              LET w == img_orig[r].w
                  h == img_orig[r].h
                  a == CropArea(w, h)
              IN  /\ a = <<FloorDiv(w, 4), FloorDiv(h, 4), FloorDiv(3 * w, 4), FloorDiv(3 * h, 4)>>
                  /\ 0 <= a[1] /\ a[1] <= a[3] /\ a[3] <= w
                  /\ 0 <= a[2] /\ a[2] <= a[4] /\ a[4] <= h
                  /\ ((a[3] - a[1]) * (a[4] - a[2]) > 0) <=> (w >= 2 /\ h >= 2)
        /\ (pc[r] = "save" /\ "crop" \in ran[r]) =>
              /\ img_orig[r].w = FloorDiv(3 * upload[r].w, 4) - FloorDiv(upload[r].w, 4)
              /\ img_orig[r].h = FloorDiv(3 * upload[r].h, 4) - FloorDiv(upload[r].h, 4)
              /\ (img_orig[r].w * img_orig[r].h = 0) <=> (upload[r].w = 1 \/ upload[r].h = 1)

C10_Witness ==
    \E r \in Reqs : /\ pc[r] = "save" /\ "crop" \in ran[r]
                    /\ upload[r].w = 1 /\ upload[r].h >= 2
                    /\ img_orig[r].w = 0 /\ img_orig[r].h >= 1

====
